---- MODULE Spec2Model ----
(***************************************************************************)
(* A model of the acorn-db storage engine (src/acorn-server/app.py): the   *)
(* B+ tree index, the write-ahead log, the snapshot store and the engine   *)
(* PaymentRDBMS that ties them together.                                   *)
(*                                                                         *)
(* Python objects that are shared by reference (rows, index buckets, tree  *)
(* nodes) live in arenas and are named by their position in the arena, so  *)
(* that a mutation through one reference is seen through every other one.  *)
(* Position 0 of an arena is Python's None.                                *)
(***************************************************************************)
EXTENDS Integers, Sequences, FiniteSets, TLC

(***************************************************************************)
(* Bounds of the model.                                                    *)
(***************************************************************************)
\* keys offered to a stand-alone tree are 1..MaxKey
MaxKey == 10
\* a stand-alone tree driven as an index takes MaxFolds rows with keys in
\* 1..MaxFoldKey
MaxFoldKey == 2
MaxFolds == 10
\* the engine takes statements while wal.log holds at most MaxWal lines
MaxWal == 3
\* and while every auto-increment counter is at most MaxNextId
MaxNextId == 3
\* the same two bounds for the engine driven without snapshots and restarts
MaxDmlWal == 4
MaxDmlNextId == 3
\* and for the engine driven by every statement, selects and index creation
\* included
MaxQueryWal == 4
MaxQueryNextId == 4
\* and for the engine driven by table and index creation, inserts, snapshots
\* and restarts
MaxIndexWal == 3
MaxIndexNextId == 3
\* and for the engine driven by inserts into two tables and joins of them
MaxJoinWal == 4
MaxUpdateWal == 5
MaxConcRows == 2
MaxCrashWal == 3
MaxLogAppends == 4
MaxInsertWal == 3
MaxRaceRows == 2
MaxRaceNextId == 3
MaxInsertNextId == 3
MaxCrashNextId == 3
MaxConcWal == 3
MaxConcNextId == 3
MaxUpdateNextId == 3
MaxJoinNextId == 3

(***************************************************************************)
(* Program constants.                                                      *)
(***************************************************************************)
\* BPlusTree(order=4)
Order == 4
\* Python's None where an integer or an arena position is expected
None == 0

\* WriteAheadLog.append checkpoints once more than this many entries have
\* accumulated since the last checkpoint
CheckpointEvery == 100

VARIABLES
    tree,       \* a stand-alone BPlusTree
    inserted,   \* history: key -> the value handed to tree.insert under it
    buckets,    \* the list objects handed to the stand-alone tree, by position
    inflight,   \* the insert request a second thread is in the middle of
    tables,     \* PaymentRDBMS.tables: table name -> Table
    heap,       \* the row objects (dicts) of this process, by position
    indexes,    \* PaymentRDBMS.indexes: index key -> registration
    wal,        \* PaymentRDBMS.wal: the in-memory WriteAheadLog
    walFile,    \* the lines of wal.log
    snapFile,   \* the content of db_snapshot.json
    res,        \* the outcome of the last statement
    history,    \* history: every line ever written to wal.log, in order
    assigned,   \* history: table name -> the auto-assigned keys of its rows
    snapView,   \* history: the tables as they were at the last snapshot
    snapAssigned \* history: assigned as it was at the last snapshot

treeVars == <<tree, inserted, buckets>>

engineVars == <<inflight, tables, heap, indexes, wal, walFile, snapFile, res,
                history, assigned, snapView, snapAssigned>>

(***************************************************************************)
(* Python list helpers (positions are 0-based, as in the source).          *)
(***************************************************************************)
\* list[:n]
Take(s, n) == SubSeq(s, 1, n)

\* list[n:]
Drop(s, n) == SubSeq(s, n + 1, Len(s))

\* list.insert(i, x)
ListInsert(s, i, x) == Take(s, i) \o <<x>> \o Drop(s, i)

\* bisect.bisect_left(a, x): the binary search of the standard library
RECURSIVE BisectLoop(_, _, _, _)
BisectLoop(a, x, lo, hi) ==
    IF lo < hi
    THEN LET mid == (lo + hi) \div 2
         IN  IF a[mid + 1] < x
             THEN BisectLoop(a, x, mid + 1, hi)
             ELSE BisectLoop(a, x, lo, mid)
    ELSE lo

BisectLeft(a, x) == BisectLoop(a, x, 0, Len(a))

\* list.index(x): the first position holding x; -1 stands for ValueError
ListIndex(s, x) ==
    IF \E i \in 1..Len(s) : s[i] = x
    THEN (CHOOSE i \in 1..Len(s) : s[i] = x /\ \A j \in 1..(i - 1) : s[j] # x) - 1
    ELSE -1

(***************************************************************************)
(* B+ tree.  A tree is [root, nodes, order]: nodes is the arena of its     *)
(* BPlusTreeNode objects and root the position of the root node.           *)
(***************************************************************************)
BPlusTreeNode(order, is_leaf) ==
    [order |-> order, is_leaf |-> is_leaf, keys |-> <<>>, children |-> <<>>,
     values |-> <<>>, next |-> None]

BPlusTree(order) ==
    [root |-> 1, nodes |-> <<BPlusTreeNode(order, TRUE)>>, order |-> order]

\* the descent loop of search: from node n down to a leaf
RECURSIVE SearchLeaf(_, _, _)
SearchLeaf(nodes, n, key) ==
    IF nodes[n].is_leaf
    THEN n
    ELSE SearchLeaf(nodes, nodes[n].children[BisectLeft(nodes[n].keys, key) + 1], key)

\* BPlusTree.search: the value stored under key, or None
Search(t, key) ==
    LET node == t.nodes[SearchLeaf(t.nodes, t.root, key)]
        idx  == ListIndex(node.keys, key)
    IN  IF idx >= 0 THEN node.values[idx + 1] ELSE None

\* the "for i, key in enumerate(node.keys)" loop of range_query over one leaf,
\* from position i: the results so far and whether the loop returned them.
\* bks is the arena of the list objects that the tree's values name.
RECURSIVE RangeLeaf(_, _, _, _, _, _)
RangeLeaf(node, bks, min_key, max_key, i, results) ==
    IF i > Len(node.keys)
    THEN [results |-> results, returned |-> FALSE]
    ELSE IF min_key <= node.keys[i] /\ node.keys[i] <= max_key
         THEN RangeLeaf(node, bks, min_key, max_key, i + 1,
                        results \o bks[node.values[i]])
         ELSE IF node.keys[i] > max_key
              THEN [results |-> results, returned |-> TRUE]
              ELSE RangeLeaf(node, bks, min_key, max_key, i + 1, results)

\* the "while node" loop of range_query, from leaf n along the next references
RECURSIVE RangeChain(_, _, _, _, _, _)
RangeChain(nodes, bks, n, min_key, max_key, results) ==
    IF n = None THEN results
    ELSE LET r == RangeLeaf(nodes[n], bks, min_key, max_key, 1, results)
         IN  IF r.returned THEN r.results
             ELSE RangeChain(nodes, bks, nodes[n].next, min_key, max_key, r.results)

\* BPlusTree.range_query: its descent is search's, with min_key as the key
RangeQuery(t, bks, min_key, max_key) ==
    RangeChain(t.nodes, bks, SearchLeaf(t.nodes, t.root, min_key),
               min_key, max_key, <<>>)

\* _split_child without "new_node.next = full_node.next"
SplitChildUnlinked(nodes, order, parent, index) ==
    LET full     == nodes[parent].children[index + 1]
        fullNode == nodes[full]
        new      == Len(nodes) + 1
        mid      == order \div 2
        newKeys  == Drop(fullNode.keys, mid)
        lowKeys  == Take(fullNode.keys, mid)
        newNode  ==
            IF fullNode.is_leaf
            THEN [BPlusTreeNode(order, TRUE) EXCEPT
                    !.keys = newKeys,
                    !.values = Drop(fullNode.values, mid)]
            ELSE [BPlusTreeNode(order, FALSE) EXCEPT
                    !.keys = newKeys,
                    !.children = Drop(fullNode.children, mid)]
        fullAfter ==
            IF fullNode.is_leaf
            THEN [fullNode EXCEPT
                    !.keys = lowKeys,
                    !.values = Take(fullNode.values, mid),
                    !.next = new]
            ELSE [fullNode EXCEPT
                    !.keys = Take(lowKeys, Len(lowKeys) - 1),
                    !.children = Take(fullNode.children, mid)]
        promoted ==
            IF fullNode.is_leaf THEN newKeys[1] ELSE lowKeys[Len(lowKeys)]
        parentAfter ==
            [nodes[parent] EXCEPT
                !.keys = ListInsert(@, index, promoted),
                !.children = ListInsert(@, index + 1, new)]
    IN  [Append(nodes, newNode) EXCEPT ![full] = fullAfter, ![parent] = parentAfter]

\* _split_child without "full_node.next = new_node"
SplitChildNextKept(nodes, order, parent, index) ==
    LET full     == nodes[parent].children[index + 1]
        fullNode == nodes[full]
        new      == Len(nodes) + 1
        mid      == order \div 2
        newKeys  == Drop(fullNode.keys, mid)
        lowKeys  == Take(fullNode.keys, mid)
        newNode  ==
            IF fullNode.is_leaf
            THEN [BPlusTreeNode(order, TRUE) EXCEPT
                    !.keys = newKeys,
                    !.values = Drop(fullNode.values, mid),
                    !.next = fullNode.next]
            ELSE [BPlusTreeNode(order, FALSE) EXCEPT
                    !.keys = newKeys,
                    !.children = Drop(fullNode.children, mid)]
        fullAfter ==
            IF fullNode.is_leaf
            THEN [fullNode EXCEPT
                    !.keys = lowKeys,
                    !.values = Take(fullNode.values, mid)]
            ELSE [fullNode EXCEPT
                    !.keys = Take(lowKeys, Len(lowKeys) - 1),
                    !.children = Take(fullNode.children, mid)]
        promoted ==
            IF fullNode.is_leaf THEN newKeys[1] ELSE lowKeys[Len(lowKeys)]
        parentAfter ==
            [nodes[parent] EXCEPT
                !.keys = ListInsert(@, index, promoted),
                !.children = ListInsert(@, index + 1, new)]
    IN  [Append(nodes, newNode) EXCEPT ![full] = fullAfter, ![parent] = parentAfter]

\* BPlusTree._split_child: the arena after splitting parent.children[index]
SplitChild(nodes, order, parent, index) ==
    LET full     == nodes[parent].children[index + 1]
        fullNode == nodes[full]
        new      == Len(nodes) + 1
        mid      == order \div 2
        newKeys  == Drop(fullNode.keys, mid)
        lowKeys  == Take(fullNode.keys, mid)
        newNode  ==
            IF fullNode.is_leaf
            THEN [BPlusTreeNode(order, TRUE) EXCEPT
                    !.keys = newKeys,
                    !.values = Drop(fullNode.values, mid),
                    !.next = fullNode.next]
            ELSE [BPlusTreeNode(order, FALSE) EXCEPT
                    !.keys = newKeys,
                    !.children = Drop(fullNode.children, mid)]
        fullAfter ==
            IF fullNode.is_leaf
            THEN [fullNode EXCEPT
                    !.keys = lowKeys,
                    !.values = Take(fullNode.values, mid),
                    !.next = new]
            ELSE [fullNode EXCEPT
                    !.keys = Take(lowKeys, Len(lowKeys) - 1),
                    !.children = Take(fullNode.children, mid)]
        promoted ==
            IF fullNode.is_leaf THEN newKeys[1] ELSE lowKeys[Len(lowKeys)]
        parentAfter ==
            [nodes[parent] EXCEPT
                !.keys = ListInsert(@, index, promoted),
                !.children = ListInsert(@, index + 1, new)]
    IN  [Append(nodes, newNode) EXCEPT ![full] = fullAfter, ![parent] = parentAfter]

\* BPlusTree._insert_non_full: the arena after inserting below node n
RECURSIVE InsertNonFull(_, _, _, _, _)
InsertNonFull(nodes, order, n, key, value) ==
    IF nodes[n].is_leaf
    THEN LET i == BisectLeft(nodes[n].keys, key)
         IN  [nodes EXCEPT ![n].keys = ListInsert(@, i, key),
                           ![n].values = ListInsert(@, i, value)]
    ELSE LET i == BisectLeft(nodes[n].keys, key)
         IN  IF Len(nodes[nodes[n].children[i + 1]].keys) >= order - 1
             THEN LET split == SplitChild(nodes, order, n, i)
                      j     == IF key > split[n].keys[i + 1] THEN i + 1 ELSE i
                  IN  InsertNonFull(split, order, split[n].children[j + 1], key, value)
             ELSE InsertNonFull(nodes, order, nodes[n].children[i + 1], key, value)

\* insert without the split of a full root
InsertNoRootSplit(t, key, value) ==
    [t EXCEPT !.nodes = InsertNonFull(t.nodes, t.order, t.root, key, value)]

\* BPlusTree.insert
Insert(t, key, value) ==
    IF Len(t.nodes[t.root].keys) >= t.order - 1
    THEN LET newRoot == Len(t.nodes) + 1
             grown   == Append(t.nodes,
                               [BPlusTreeNode(t.order, FALSE) EXCEPT
                                   !.children = <<t.root>>])
             split   == SplitChild(grown, t.order, newRoot, 0)
         IN  [t EXCEPT !.root = newRoot,
                       !.nodes = InsertNonFull(split, t.order, newRoot, key, value)]
    ELSE [t EXCEPT !.nodes = InsertNonFull(t.nodes, t.order, t.root, key, value)]

(***************************************************************************)
(* A stand-alone tree driven by insert calls with distinct keys.  The      *)
(* value handed in under key k is the bucket named k.                      *)
(***************************************************************************)
TreeInit ==
    /\ tree = BPlusTree(Order)
    /\ inserted = << >>
    /\ buckets = << >>

TreeInsert(k) ==
    /\ k \notin DOMAIN inserted
    /\ UNCHANGED <<engineVars, buckets>>
    /\ tree' = Insert(tree, k, k)
    /\ inserted' = [x \in DOMAIN inserted \cup {k} |->
                        IF x = k THEN k ELSE inserted[x]]

(***************************************************************************)
(* Python dict helpers.  A dict is a function; the empty dict is << >>.    *)
(***************************************************************************)
\* Python's None where a string is expected (a primary_key that is absent)
NoneStr == ""

EmptyDict == << >>

\* d[k] = v
Put(d, k, v) == [x \in DOMAIN d \cup {k} |-> IF x = k THEN v ELSE d[x]]

\* d.get(k), None when k is absent
Get(d, k) == IF k \in DOMAIN d THEN d[k] ELSE None

\* the dict d after "for col, val in u.items(): d[col] = val"
DictUpdate(d, u) ==
    [x \in DOMAIN d \cup DOMAIN u |-> IF x \in DOMAIN u THEN u[x] ELSE d[x]]

\* list(a_set): the elements of a set in some order
RECURSIVE SetToList(_)
SetToList(S) ==
    IF S = {} THEN <<>>
    ELSE LET x == CHOOSE y \in S : TRUE IN <<x>> \o SetToList(S \ {x})

\* set(a_list)
ListToSet(s) == {s[i] : i \in 1..Len(s)}

(***************************************************************************)
(* Write-ahead log.  An in-memory entry keeps a reference to the object    *)
(* it was given as data; the line written to wal.log is the JSON text of   *)
(* that object at the time of the append.  In-memory data is one of        *)
(*   [kind |-> "columns", columns |-> list]    CREATE_TABLE                *)
(*   [kind |-> "row", ref |-> row position]    INSERT, DELETE              *)
(*   [kind |-> "update", old |-> dict, ref |-> row position]   UPDATE      *)
(*   [kind |-> "json", value |-> v]            an entry read back from disk*)
(***************************************************************************)
WALEntry(operation, table, data, lsn) ==
    [operation |-> operation, table |-> table, data |-> data, lsn |-> lsn]

\* json.dumps of an entry's data, the row objects read from heap h
JsonData(h, data) ==
    CASE data.kind = "columns" -> [columns |-> data.columns]
      [] data.kind = "row"     -> h[data.ref]
      [] data.kind = "update"  -> [old |-> data.old, new |-> h[data.ref]]
      [] OTHER                 -> data.value

\* WALEntry.to_dict followed by json.dumps (the timestamp is left out)
ToDict(h, entry) ==
    [operation |-> entry.operation, table |-> entry.table,
     data |-> JsonData(h, entry.data), lsn |-> entry.lsn]

\* WriteAheadLog.__init__ before _load_wal
NewWal == [entries |-> <<>>, lsn_counter |-> 0, checkpoint_lsn |-> 0]

\* WriteAheadLog.checkpoint
Checkpoint(w) == [w EXCEPT !.checkpoint_lsn = Len(w.entries)]

\* WriteAheadLog.append and _persist_entry: the log and the file afterwards
WalAppend(w, file, h, operation, table, data) ==
    LET entry == WALEntry(operation, table, data, w.lsn_counter)
        w1    == [w EXCEPT !.lsn_counter = @ + 1, !.entries = Append(@, entry)]
        w2    == IF Len(w1.entries) - w1.checkpoint_lsn > CheckpointEvery
                 THEN Checkpoint(w1) ELSE w1
    IN  [wal |-> w2, walFile |-> Append(file, ToDict(h, entry)), lsn |-> entry.lsn]

\* WriteAheadLog.clear: the file is removed and the entries dropped; the
\* counter and checkpoint_lsn stay as they are
WalClear(w) == [wal |-> [w EXCEPT !.entries = <<>>], walFile |-> <<>>]

\* _load_wal with the counter resumed at the largest LSN read, not one past it
RECURSIVE LoadWalResumeAtMax(_, _, _)
LoadWalResumeAtMax(w, file, i) ==
    IF i > Len(file) THEN w
    ELSE LET d     == file[i]
             entry == WALEntry(d.operation, d.table,
                               [kind |-> "json", value |-> d.data], d.lsn)
             next  == IF w.lsn_counter > d.lsn THEN w.lsn_counter ELSE d.lsn
         IN  LoadWalResumeAtMax([w EXCEPT !.entries = Append(@, entry),
                                          !.lsn_counter = next], file, i + 1)

\* WriteAheadLog._load_wal: the entries of the file, in file order
RECURSIVE LoadWalFrom(_, _, _)
LoadWalFrom(w, file, i) ==
    IF i > Len(file) THEN w
    ELSE LET d     == file[i]
             entry == WALEntry(d.operation, d.table,
                               [kind |-> "json", value |-> d.data], d.lsn)
             next  == IF w.lsn_counter > d.lsn + 1 THEN w.lsn_counter ELSE d.lsn + 1
         IN  LoadWalFrom([w EXCEPT !.entries = Append(@, entry),
                                   !.lsn_counter = next], file, i + 1)

\* a WriteAheadLog() that reads only the last line of wal.log
WriteAheadLogLastLine(file) ==
    IF file = <<>> THEN NewWal
    ELSE LoadWalFrom(NewWal, <<file[Len(file)]>>, 1)

\* WriteAheadLog(): a fresh log that has read wal.log
WriteAheadLog(file) == LoadWalFrom(NewWal, file, 1)

(***************************************************************************)
(* Tables.                                                                 *)
(***************************************************************************)
ColDef(name, type, is_primary, is_unique) ==
    [name |-> name, type |-> type, is_primary |-> is_primary, is_unique |-> is_unique]

\* Table.__init__
Table(name, columns, primary_key) ==
    [name |-> name, columns |-> columns, rows |-> <<>>, primary_key |-> primary_key,
     unique_columns |-> {columns[i].name : i \in {j \in 1..Len(columns) : columns[j].is_unique}},
     next_id |-> 1]

(***************************************************************************)
(* The engine's in-memory and on-disk state as one record, so that the     *)
(* statements can be written as functions from state to state.             *)
(***************************************************************************)
Engine ==
    [tables |-> tables, heap |-> heap, indexes |-> indexes, wal |-> wal,
     walFile |-> walFile]

\* f"{table_name}_{column_name}_idx"
IndexKey(table_name, column_name) == table_name \o "_" \o column_name \o "_idx"

\* "existing = tree.search(value) or []; existing.append(row);
\*  tree.insert(value, existing)" on one index registration.  A bucket that
\* search finds is the list object the tree already holds.
IndexFold(ix, value, rid) ==
    LET found == Search(ix.tree, value)
        hit   == found # None /\ ix.buckets[found] # <<>>
        b     == IF hit THEN found ELSE Len(ix.buckets) + 1
    IN  [ix EXCEPT
            !.buckets = IF hit THEN [@ EXCEPT ![b] = Append(@, rid)]
                        ELSE Append(@, <<rid>>),
            !.tree = Insert(@, value, b)]

\* the loop of _create_index over table.rows
RECURSIVE IndexRows(_, _, _, _, _)
IndexRows(ix, h, rows, column_name, i) ==
    IF i > Len(rows) THEN ix
    ELSE LET value == Get(h[rows[i]], column_name)
         IN  IndexRows(IF value # None THEN IndexFold(ix, value, rows[i]) ELSE ix,
                       h, rows, column_name, i + 1)

\* PaymentRDBMS._create_index, registered under key
CreateIndex(e, table_name, column_name, key) ==
    LET empty == [table |-> table_name, column |-> column_name,
                  tree |-> BPlusTree(Order), buckets |-> <<>>]
        ix    == IF table_name \in DOMAIN e.tables
                 THEN IndexRows(empty, e.heap, e.tables[table_name].rows, column_name, 1)
                 ELSE empty
    IN  [e EXCEPT !.indexes = Put(@, key, ix)]

\* the outcome of a statement, as execute returns or raises it
Result(op, table, success, message, count, rows, columns) ==
    [op |-> op, table |-> table, success |-> success, message |-> message,
     count |-> count, rows |-> rows, columns |-> columns]

\* a statement that changes nothing but its own outcome
Done(e, op, table, message, count) ==
    [e |-> e, res |-> Result(op, table, TRUE, message, count, <<>>, <<>>)]

\* "raise ValueError(message)" out of execute, the state as it is by then
Raise(e, op, table, message) ==
    [e |-> e, res |-> Result(op, table, FALSE, message, 0, <<>>, <<>>)]

\* the loop of _create_table over the column definitions
RECURSIVE CreateTableColumns(_, _, _, _)
CreateTableColumns(e, table_name, columns, i) ==
    IF i > Len(columns) THEN e
    ELSE LET col == columns[i]
             e1  == IF col.is_primary
                    THEN CreateIndex(e, table_name, col.name, IndexKey(table_name, col.name))
                    ELSE e
             e2  == IF col.is_unique
                    THEN CreateIndex(e1, table_name, col.name, IndexKey(table_name, col.name))
                    ELSE e1
         IN  CreateTableColumns(e2, table_name, columns, i + 1)

\* the primary_key that _create_table's loop ends with
PrimaryKeyOf(columns) ==
    LET P == {i \in 1..Len(columns) : columns[i].is_primary}
    IN  IF P = {} THEN NoneStr
        ELSE columns[CHOOSE i \in P : \A j \in P : j <= i].name

\* PaymentRDBMS._create_table
DoCreateTable(e, table_name, columns) ==
    LET e1    == CreateTableColumns(e, table_name, columns, 1)
        table == Table(table_name, columns, PrimaryKeyOf(columns))
        a     == WalAppend(e1.wal, e1.walFile, e1.heap, "CREATE_TABLE", table_name,
                           [kind |-> "columns", columns |-> columns])
    IN  Done([e1 EXCEPT !.tables = Put(@, table_name, table),
                        !.wal = a.wal, !.walFile = a.walFile],
             "create_table", table_name, "Table created", 0)

\* PaymentRDBMS._create_index_sql
DoCreateIndexSql(e, index_name, table_name, column_name) ==
    Done(CreateIndex(e, table_name, column_name, index_name),
         "create_index", table_name, "B+ Tree index created", 0)

\* a unique-constraint check whose loop over the existing rows skips the first
DuplicateColumnsSkipFirst(h, table, row) ==
    {c \in table.unique_columns :
        /\ c \in DOMAIN row
        /\ \E i \in 2..Len(table.rows) : Get(h[table.rows[i]], c) = row[c]}

\* the unique-constraint check of _insert: the unique columns of the new row
\* whose value an existing row already holds
DuplicateColumns(h, table, row) ==
    {c \in table.unique_columns :
        /\ c \in DOMAIN row
        /\ \E i \in 1..Len(table.rows) : Get(h[table.rows[i]], c) = row[c]}

\* the "Update indexes" loop without "if index_data['table'] == table_name"
UpdateIndexesAnyTable(ixs, table_name, row, rid) ==
    [k \in DOMAIN ixs |->
        IF ixs[k].column \in DOMAIN row
        THEN IndexFold(ixs[k], row[ixs[k].column], rid)
        ELSE ixs[k]]

\* the "Update indexes" loop of _insert for the row at position rid
UpdateIndexes(ixs, table_name, row, rid) ==
    [k \in DOMAIN ixs |->
        IF ixs[k].table = table_name /\ ixs[k].column \in DOMAIN row
        THEN IndexFold(ixs[k], row[ixs[k].column], rid)
        ELSE ixs[k]]

\* an auto-increment step without "table.next_id += 1"
AutoIncrementStuck(table, given) ==
    IF table.primary_key # NoneStr /\ table.primary_key \notin DOMAIN given
    THEN [row |-> Put(given, table.primary_key, table.next_id), table |-> table]
    ELSE [row |-> given, table |-> table]

\* the auto-increment step of _insert: the row as materialised, and the table
AutoIncrement(table, given) ==
    IF table.primary_key # NoneStr /\ table.primary_key \notin DOMAIN given
    THEN [row |-> Put(given, table.primary_key, table.next_id),
          table |-> [table EXCEPT !.next_id = @ + 1]]
    ELSE [row |-> given, table |-> table]

\* PaymentRDBMS._insert; given is dict(zip(columns, values))
DoInsert(e, table_name, given) ==
    IF table_name \notin DOMAIN e.tables
    THEN Raise(e, "insert", table_name, "Table " \o table_name \o " does not exist")
    ELSE
    LET auto  == AutoIncrement(e.tables[table_name], given)
        row   == auto.row
        e1    == [e EXCEPT !.tables[table_name] = auto.table]
        dups  == DuplicateColumns(e.heap, auto.table, row)
    IN  IF dups # {}
        THEN Raise(e1, "insert", table_name,
                   "Duplicate value for unique column " \o (CHOOSE c \in dups : TRUE))
        ELSE
        LET rid == Len(e.heap) + 1
            h2  == Append(e.heap, row)
            a   == WalAppend(e.wal, e.walFile, h2, "INSERT", table_name,
                             [kind |-> "row", ref |-> rid])
        IN  [e |-> [e1 EXCEPT !.heap = h2,
                              !.tables[table_name].rows = Append(@, rid),
                              !.indexes = UpdateIndexes(@, table_name, row, rid),
                              !.wal = a.wal, !.walFile = a.walFile],
             res |-> Result("insert", table_name, TRUE, "Row inserted",
                            Get(row, auto.table.primary_key), <<>>, <<>>)]

\* PaymentRDBMS._filter_rows for the clause "column = value": row positions
FilterRows(e, table, rows, column, value) ==
    LET index_key == IndexKey(table.name, column)
    IN  IF index_key \in DOMAIN e.indexes
        THEN LET ix      == e.indexes[index_key]
                 results == Search(ix.tree, value)
             IN  IF results # None /\ ix.buckets[results] # <<>>
                 THEN ix.buckets[results] ELSE <<>>
        ELSE LET Match(rid) == Get(e.heap[rid], column) = value
             IN  SelectSeq(rows, Match)

\* "{col: row.get(col) for col in select_cols}"
Project(row, select_cols) ==
    [c \in ListToSet(select_cols) |-> Get(row, c)]

\* the wildcard column list
Star == <<"*">>

\* no WHERE clause
NoWhere == [column |-> NoneStr, value |-> None]

\* PaymentRDBMS._select without JOIN
DoSelect(e, columns, table_name, where) ==
    IF table_name \notin DOMAIN e.tables
    THEN Raise(e, "select", table_name, "Table " \o table_name \o " does not exist")
    ELSE
    LET table == e.tables[table_name]
        rids  == IF where # NoWhere
                 THEN FilterRows(e, table, table.rows, where.column, where.value)
                 ELSE table.rows
        rows  == [i \in 1..Len(rids) |-> e.heap[rids[i]]]
    IN  [e |-> e,
         res |-> IF columns = Star
                 THEN Result("select", table_name, TRUE, "", Len(rows), rows,
                             [i \in 1..Len(table.columns) |-> table.columns[i].name])
                 ELSE Result("select", table_name, TRUE, "", Len(rows),
                             [i \in 1..Len(rows) |-> Project(rows[i], columns)],
                             columns)]

\* a row with its columns renamed to f"{table_name}.{k}"
Qualified(table_name, row) ==
    [q \in {table_name \o "." \o k : k \in DOMAIN row} |->
        row[CHOOSE k \in DOMAIN row : table_name \o "." \o k = q]]

\* joined_row of _select_join: the columns of row1, then those of row2
JoinedRow(table1_name, row1, table2_name, row2) ==
    DictUpdate(Qualified(table1_name, row1), Qualified(table2_name, row2))

\* the nested loops of _select_join, from row i of table1 and row j of table2
RECURSIVE JoinLoop(_, _, _, _, _, _, _, _)
JoinLoop(h, table1, table2, col1, col2, i, j, result) ==
    IF i > Len(table1.rows) THEN result
    ELSE IF j > Len(table2.rows)
         THEN JoinLoop(h, table1, table2, col1, col2, i + 1, 1, result)
         ELSE LET row1 == h[table1.rows[i]]
                  row2 == h[table2.rows[j]]
              IN  JoinLoop(h, table1, table2, col1, col2, i, j + 1,
                           IF Get(row1, col1) = Get(row2, col2)
                           THEN Append(result,
                                       JoinedRow(table1.name, row1, table2.name, row2))
                           ELSE result)

\* PaymentRDBMS._select_join; "list(result[0].keys())" is the columns of the
\* first row in some order
DoSelectJoin(e, columns, table1_name, table2_name, col1, col2) ==
    IF table1_name \notin DOMAIN e.tables \/ table2_name \notin DOMAIN e.tables
    THEN Raise(e, "join", table1_name, "Table does not exist")
    ELSE
    LET result == JoinLoop(e.heap, e.tables[table1_name], e.tables[table2_name],
                           col1, col2, 1, 1, <<>>)
    IN  [e |-> e,
         res |-> IF columns = Star
                 THEN Result("join", table1_name, TRUE, "", Len(result), result,
                             IF result # <<>> THEN SetToList(DOMAIN result[1])
                             ELSE <<>>)
                 ELSE Result("join", table1_name, TRUE, "", Len(result),
                             [i \in 1..Len(result) |-> Project(result[i], columns)],
                             columns)]

\* the loop of _update, the prior image taken after the assignments
RECURSIVE UpdateRowsOldAfter(_, _, _, _, _)
UpdateRowsOldAfter(e, table_name, rids, updates, i) ==
    IF i > Len(rids) THEN e
    ELSE LET rid     == rids[i]
             h2      == [e.heap EXCEPT ![rid] = DictUpdate(@, updates)]
             old_row == h2[rid]
             a       == WalAppend(e.wal, e.walFile, h2, "UPDATE", table_name,
                                  [kind |-> "update", old |-> old_row, ref |-> rid])
         IN  UpdateRowsOldAfter([e EXCEPT !.heap = h2, !.wal = a.wal,
                                          !.walFile = a.walFile],
                                table_name, rids, updates, i + 1)

\* the loop of _update over the matched rows
RECURSIVE UpdateRows(_, _, _, _, _)
UpdateRows(e, table_name, rids, updates, i) ==
    IF i > Len(rids) THEN e
    ELSE LET rid     == rids[i]
             old_row == e.heap[rid]
             h2      == [e.heap EXCEPT ![rid] = DictUpdate(@, updates)]
             a       == WalAppend(e.wal, e.walFile, h2, "UPDATE", table_name,
                                  [kind |-> "update", old |-> old_row, ref |-> rid])
         IN  UpdateRows([e EXCEPT !.heap = h2, !.wal = a.wal, !.walFile = a.walFile],
                        table_name, rids, updates, i + 1)

\* PaymentRDBMS._update
DoUpdate(e, table_name, updates, where) ==
    IF table_name \notin DOMAIN e.tables
    THEN Raise(e, "update", table_name, "Table " \o table_name \o " does not exist")
    ELSE
    LET table == e.tables[table_name]
        rids  == FilterRows(e, table, table.rows, where.column, where.value)
    IN  Done(UpdateRows(e, table_name, rids, updates, 1),
             "update", table_name, "row(s) updated", Len(rids))

\* the loop of _delete that logs the matched rows
RECURSIVE LogDeletes(_, _, _, _)
LogDeletes(e, table_name, rids, i) ==
    IF i > Len(rids) THEN e
    ELSE LET a == WalAppend(e.wal, e.walFile, e.heap, "DELETE", table_name,
                            [kind |-> "row", ref |-> rids[i]])
         IN  LogDeletes([e EXCEPT !.wal = a.wal, !.walFile = a.walFile],
                        table_name, rids, i + 1)

\* PaymentRDBMS._delete; "row not in to_delete" compares dicts by content
DoDelete(e, table_name, where) ==
    IF table_name \notin DOMAIN e.tables
    THEN Raise(e, "delete", table_name, "Table " \o table_name \o " does not exist")
    ELSE
    LET table     == e.tables[table_name]
        to_delete == FilterRows(e, table, table.rows, where.column, where.value)
        e1        == LogDeletes(e, table_name, to_delete, 1)
        Kept(rid) == \A i \in 1..Len(to_delete) : e.heap[rid] # e.heap[to_delete[i]]
    IN  Done([e1 EXCEPT !.tables[table_name].rows = SelectSeq(@, Kept)],
             "delete", table_name, "row(s) deleted", Len(to_delete))

(***************************************************************************)
(* Snapshots.  db_snapshot.json holds, per table, the column definitions,  *)
(* the rows by content, the primary key, the unique columns as a list and  *)
(* next_id.                                                                *)
(***************************************************************************)
NoSnapshot == [exists |-> FALSE, tables |-> EmptyDict]

\* db_snapshot.json after "open(self.snapshot_file, 'w')" and before json.dump
\* has written and closed it: empty, or a prefix of the text
TornSnapshot == [exists |-> TRUE, tables |-> EmptyDict, torn |-> TRUE]

\* json.load raises on such a file
IsTorn(snap) == "torn" \in DOMAIN snap

\* StorageManager.create_snapshot: the file it writes
CreateSnapshot(tbls, h) ==
    [exists |-> TRUE,
     tables |-> [name \in DOMAIN tbls |->
                    [columns |-> tbls[name].columns,
                     rows |-> [i \in 1..Len(tbls[name].rows) |-> h[tbls[name].rows[i]]],
                     primary_key |-> tbls[name].primary_key,
                     unique_columns |-> SetToList(tbls[name].unique_columns),
                     next_id |-> tbls[name].next_id]]]

\* "for col in table.unique_columns: self._create_index(name, col)"
RECURSIVE CreateIndexes(_, _, _)
CreateIndexes(e, table_name, cols) ==
    IF cols = {} THEN e
    ELSE LET col == CHOOSE c \in cols : TRUE
         IN  CreateIndexes(CreateIndex(e, table_name, col, IndexKey(table_name, col)),
                           table_name, cols \ {col})

\* a Table built from the snapshot without "table.next_id = table_data['next_id']"
LoadedTableFreshCounter(name, data, base) ==
    [Table(name, data.columns, data.primary_key) EXCEPT
        !.rows = [i \in 1..Len(data.rows) |-> base + i],
        !.unique_columns = ListToSet(data.unique_columns)]

\* the Table that _load_from_snapshot builds from one table of the snapshot,
\* its rows the objects at positions base + 1, base + 2, ...
LoadedTable(name, data, base) ==
    [Table(name, data.columns, data.primary_key) EXCEPT
        !.rows = [i \in 1..Len(data.rows) |-> base + i],
        !.unique_columns = ListToSet(data.unique_columns),
        !.next_id = data.next_id]

\* the loop of _load_from_snapshot over the tables of the snapshot; the rows
\* read from the file are new objects
RECURSIVE LoadTables(_, _, _)
LoadTables(e, snapTables, names) ==
    IF names = {} THEN e
    ELSE LET name  == CHOOSE n \in names : TRUE
             data  == snapTables[name]
             table == LoadedTable(name, data, Len(e.heap))
             e1    == [e EXCEPT !.heap = @ \o data.rows,
                                !.tables = Put(@, name, table)]
             e2    == IF table.primary_key # NoneStr
                      THEN CreateIndex(e1, name, table.primary_key,
                                       IndexKey(name, table.primary_key))
                      ELSE e1
         IN  LoadTables(CreateIndexes(e2, name, table.unique_columns),
                        snapTables, names \ {name})

\* PaymentRDBMS.__init__ in a new process, over the files on disk
NewEngine(file, snap) ==
    LET e0 == [tables |-> EmptyDict, heap |-> <<>>, indexes |-> EmptyDict,
               wal |-> WriteAheadLog(file), walFile |-> file]
    IN  IF snap.exists /\ ~IsTorn(snap)
        THEN LoadTables(e0, snap.tables, DOMAIN snap.tables) ELSE e0

(***************************************************************************)
(* The engine as a state machine: one action per statement kind, one for   *)
(* the snapshot endpoint and one for a restart of the process.             *)
(***************************************************************************)
TableNames == {"t"}

Columns == {"id", "email"}

Vals == {1, 2}

\* the column definitions offered to CREATE TABLE
Schemas ==
    { <<ColDef("id", "INTEGER", TRUE, FALSE), ColDef("email", "TEXT", FALSE, TRUE)>>,
      <<ColDef("id", "INTEGER", FALSE, FALSE), ColDef("email", "TEXT", FALSE, FALSE)>> }

\* the column -> value dicts offered to INSERT: without and with the id
Inserts == [{"email"} -> Vals] \cup [{"id", "email"} -> Vals]

\* the column -> value dicts offered to SET
Updates == [{"email"} -> Vals]

\* the WHERE clauses offered
Wheres == [column : Columns, value : Vals]

\* what the model shows of the tables: the rows by content
TableView(tbls, h) ==
    [name \in DOMAIN tbls |->
        [columns |-> tbls[name].columns,
         rows |-> [i \in 1..Len(tbls[name].rows) |-> h[tbls[name].rows[i]]],
         primary_key |-> tbls[name].primary_key,
         unique_columns |-> tbls[name].unique_columns,
         next_id |-> tbls[name].next_id]]

\* no request is in the middle of a statement
\* the request threads of the server; none holds a lock
Threads == {1, 2}

Idle == [pc |-> "idle"]

EngineInit ==
    /\ inflight = [th \in Threads |-> Idle]
    /\ tables = EmptyDict
    /\ heap = <<>>
    /\ indexes = EmptyDict
    /\ wal = WriteAheadLog(<<>>)
    /\ walFile = <<>>
    /\ snapFile = NoSnapshot
    /\ res = Result("init", NoneStr, TRUE, "", 0, <<>>, <<>>)
    /\ history = <<>>
    /\ assigned = EmptyDict
    /\ snapView = EmptyDict
    /\ snapAssigned = EmptyDict

\* the state after a statement with outcome out
Commit(out) ==
    /\ tables' = out.e.tables
    /\ heap' = out.e.heap
    /\ indexes' = out.e.indexes
    /\ wal' = out.e.wal
    /\ walFile' = out.e.walFile
    /\ res' = out.res
    /\ history' = history \o SubSeq(out.e.walFile, Len(walFile) + 1, Len(out.e.walFile))
    /\ UNCHANGED <<snapFile, snapView, snapAssigned, inflight, treeVars>>

CreateTableStmt(t, columns) ==
    /\ Commit(DoCreateTable(Engine, t, columns))
    /\ assigned' = Put(assigned, t, <<>>)

CreateIndexStmt(name, t, c) ==
    /\ Commit(DoCreateIndexSql(Engine, name, t, c))
    /\ UNCHANGED assigned

InsertStmt(t, given) ==
    LET out == DoInsert(Engine, t, given)
    IN  /\ Commit(out)
        /\ assigned' =
              IF out.res.success /\ AutoIncrement(tables[t], given).row # given
              THEN [assigned EXCEPT ![t] = Append(@, out.res.count)]
              ELSE assigned

(***************************************************************************)
(* _insert run by a request thread, in the three steps between which       *)
(* another thread can run: the row is materialised, checked and appended   *)
(* to table.rows; the indexes on the table are updated; the log entry is   *)
(* appended and the result returned.                                       *)
(***************************************************************************)
\* up to "table.rows.append(row)"; a statement that raises ends here
InsertRows(th, t, given) ==
    LET out == DoInsert(Engine, t, given)
    IN  /\ inflight[th].pc = "idle"
        /\ IF ~out.res.success
           THEN /\ Commit(out)
                /\ UNCHANGED assigned
           ELSE LET auto == AutoIncrement(tables[t], given)
                    rid  == Len(heap) + 1
                IN  /\ heap' = Append(heap, auto.row)
                    /\ tables' = [tables EXCEPT
                                     ![t] = [auto.table EXCEPT !.rows = Append(@, rid)]]
                    /\ inflight' = [inflight EXCEPT
                                       ![th] = [pc |-> "index", table |-> t, rid |-> rid]]
                    /\ assigned' = IF auto.row # given
                                   THEN [assigned EXCEPT
                                            ![t] = Append(@, auto.row[auto.table.primary_key])]
                                   ELSE assigned
                    /\ UNCHANGED <<indexes, wal, walFile, snapFile, res, history,
                                   snapView, snapAssigned, treeVars>>

\* the "Update indexes" loop
InsertIndexes(th) ==
    /\ inflight[th].pc = "index"
    /\ indexes' = UpdateIndexes(indexes, inflight[th].table,
                                heap[inflight[th].rid], inflight[th].rid)
    /\ inflight' = [inflight EXCEPT ![th].pc = "log"]
    /\ UNCHANGED <<tables, heap, wal, walFile, snapFile, res, history, assigned,
                   snapView, snapAssigned, treeVars>>

\* "self.wal.append('INSERT', table_name, row)" and the return
InsertLog(th) ==
    LET t == inflight[th].table
        a == WalAppend(wal, walFile, heap, "INSERT", t,
                       [kind |-> "row", ref |-> inflight[th].rid])
    IN  /\ inflight[th].pc = "log"
        /\ wal' = a.wal
        /\ walFile' = a.walFile
        /\ history' = history \o SubSeq(a.walFile, Len(walFile) + 1, Len(a.walFile))
        /\ res' = Result("insert", t, TRUE, "Row inserted",
                         Get(heap[inflight[th].rid], tables[t].primary_key), <<>>, <<>>)
        /\ inflight' = [inflight EXCEPT ![th] = Idle]
        /\ UNCHANGED <<tables, heap, indexes, snapFile, assigned, snapView,
                       snapAssigned, treeVars>>

(***************************************************************************)
(* _insert of a row without its primary key, run by a request thread,      *)
(* statement by statement where it reads and then writes a counter that    *)
(* the threads share: table.next_id and wal.lsn_counter.                   *)
(***************************************************************************)
\* "row[table.primary_key] = table.next_id"
RaceAssign(th, t, given) ==
    /\ inflight[th].pc = "idle"
    /\ t \in DOMAIN tables
    /\ tables[t].primary_key # NoneStr
    /\ tables[t].primary_key \notin DOMAIN given
    /\ inflight' = [inflight EXCEPT
                       ![th] = [pc |-> "advance", table |-> t,
                                row |-> Put(given, tables[t].primary_key,
                                            tables[t].next_id)]]
    /\ UNCHANGED <<tables, heap, indexes, wal, walFile, snapFile, res, history,
                   assigned, snapView, snapAssigned, treeVars>>

\* "table.next_id += 1"
RaceAdvance(th) ==
    /\ inflight[th].pc = "advance"
    /\ tables' = [tables EXCEPT ![inflight[th].table].next_id = @ + 1]
    /\ inflight' = [inflight EXCEPT ![th].pc = "rows"]
    /\ UNCHANGED <<heap, indexes, wal, walFile, snapFile, res, history, assigned,
                   snapView, snapAssigned, treeVars>>

\* the unique-constraint check and "table.rows.append(row)"
RaceRows(th) ==
    LET t    == inflight[th].table
        row  == inflight[th].row
        dups == DuplicateColumns(heap, tables[t], row)
        rid  == Len(heap) + 1
    IN  /\ inflight[th].pc = "rows"
        /\ IF dups # {}
           THEN /\ res' = Result("insert", t, FALSE,
                                 "Duplicate value for unique column "
                                     \o (CHOOSE c \in dups : TRUE), 0, <<>>, <<>>)
                /\ inflight' = [inflight EXCEPT ![th] = Idle]
                /\ UNCHANGED <<tables, heap, assigned>>
           ELSE /\ heap' = Append(heap, row)
                /\ tables' = [tables EXCEPT ![t].rows = Append(@, rid)]
                /\ assigned' = [assigned EXCEPT
                                   ![t] = Append(@, row[tables[t].primary_key])]
                /\ inflight' = [inflight EXCEPT
                                   ![th] = [pc |-> "index", table |-> t, rid |-> rid]]
                /\ UNCHANGED res
        /\ UNCHANGED <<indexes, wal, walFile, snapFile, history, snapView,
                       snapAssigned, treeVars>>

\* "entry = WALEntry(operation, table, data, self.lsn_counter)"
RaceEntry(th) ==
    /\ inflight[th].pc = "log"
    /\ inflight' = [inflight EXCEPT
                       ![th] = [pc |-> "persist", table |-> inflight[th].table,
                                rid |-> inflight[th].rid, lsn |-> wal.lsn_counter]]
    /\ UNCHANGED <<tables, heap, indexes, wal, walFile, snapFile, res, history,
                   assigned, snapView, snapAssigned, treeVars>>

\* "self.lsn_counter += 1" to the end of append, and the return of _insert
RacePersist(th) ==
    LET t     == inflight[th].table
        entry == WALEntry("INSERT", t, [kind |-> "row", ref |-> inflight[th].rid],
                          inflight[th].lsn)
        w1    == [wal EXCEPT !.lsn_counter = @ + 1, !.entries = Append(@, entry)]
    IN  /\ inflight[th].pc = "persist"
        /\ wal' = IF Len(w1.entries) - w1.checkpoint_lsn > CheckpointEvery
                  THEN Checkpoint(w1) ELSE w1
        /\ walFile' = Append(walFile, ToDict(heap, entry))
        /\ history' = Append(history, ToDict(heap, entry))
        /\ res' = Result("insert", t, TRUE, "Row inserted",
                         Get(heap[inflight[th].rid], tables[t].primary_key),
                         <<>>, <<>>)
        /\ inflight' = [inflight EXCEPT ![th] = Idle]
        /\ UNCHANGED <<tables, heap, indexes, snapFile, assigned, snapView,
                       snapAssigned, treeVars>>

SelectStmt(t, where) ==
    /\ Commit(DoSelect(Engine, Star, t, where))
    /\ UNCHANGED assigned

JoinStmt(columns, t1, t2, c1, c2) ==
    /\ Commit(DoSelectJoin(Engine, columns, t1, t2, c1, c2))
    /\ UNCHANGED assigned

UpdateStmt(t, updates, where) ==
    /\ Commit(DoUpdate(Engine, t, updates, where))
    /\ UNCHANGED assigned

DeleteStmt(t, where) ==
    /\ Commit(DoDelete(Engine, t, where))
    /\ UNCHANGED assigned

\* wal.append(operation, "t", value) called on the engine's log
LogAppend(operation, value) ==
    LET a == WalAppend(wal, walFile, heap, operation, "t",
                       [kind |-> "json", value |-> value])
    IN  /\ wal' = a.wal
        /\ walFile' = a.walFile
        /\ history' = Append(history, a.walFile[Len(a.walFile)])
        /\ res' = Result("append", "t", TRUE, "", a.lsn, <<>>, <<>>)
        /\ UNCHANGED <<tables, heap, indexes, snapFile, assigned, snapView,
                       snapAssigned, inflight, treeVars>>

\* wal.clear() called on the engine's log
LogClear ==
    /\ wal' = WalClear(wal).wal
    /\ walFile' = WalClear(wal).walFile
    /\ res' = Result("clear", NoneStr, TRUE, "", 0, <<>>, <<>>)
    /\ UNCHANGED <<tables, heap, indexes, snapFile, history, assigned, snapView,
                   snapAssigned, inflight, treeVars>>

\* POST /api/snapshot
Snapshot ==
    /\ snapFile' = CreateSnapshot(tables, heap)
    /\ res' = Result("snapshot", NoneStr, TRUE, "", 0, <<>>, <<>>)
    /\ snapView' = TableView(tables, heap)
    /\ snapAssigned' = assigned
    /\ UNCHANGED <<tables, heap, indexes, wal, walFile, history, assigned,
                   inflight, treeVars>>

(***************************************************************************)
(* create_snapshot in the two steps between which the process can end:     *)
(* the file is opened for writing, which empties it; json.dump writes the   *)
(* text and the file is closed.                                            *)
(***************************************************************************)
SnapshotOpen(th) ==
    /\ inflight[th].pc = "idle"
    /\ snapFile' = TornSnapshot
    /\ inflight' = [inflight EXCEPT ![th] = [pc |-> "dump"]]
    /\ UNCHANGED <<tables, heap, indexes, wal, walFile, res, history, assigned,
                   snapView, snapAssigned, treeVars>>

SnapshotDump(th) ==
    /\ inflight[th].pc = "dump"
    /\ snapFile' = CreateSnapshot(tables, heap)
    /\ res' = Result("snapshot", NoneStr, TRUE, "", 0, <<>>, <<>>)
    /\ snapView' = TableView(tables, heap)
    /\ snapAssigned' = assigned
    /\ inflight' = [inflight EXCEPT ![th] = Idle]
    /\ UNCHANGED <<tables, heap, indexes, wal, walFile, history, assigned, treeVars>>

\* the process ends and a new one constructs PaymentRDBMS(); a constructor
\* that raises leaves no engine
Restart ==
    LET e == NewEngine(walFile, snapFile)
    IN  /\ tables' = e.tables
        /\ heap' = e.heap
        /\ indexes' = e.indexes
        /\ wal' = e.wal
        /\ res' = IF IsTorn(snapFile)
                  THEN Result("restart", NoneStr, FALSE, "JSONDecodeError", 0, <<>>, <<>>)
                  ELSE Result("restart", NoneStr, TRUE, "", 0, <<>>, <<>>)
        /\ assigned' = snapAssigned
        /\ inflight' = [th \in Threads |-> Idle]
        /\ UNCHANGED <<walFile, snapFile, history, snapView, snapAssigned, treeVars>>

vars == <<tree, inserted, buckets, inflight, tables, heap, indexes, wal, walFile,
          snapFile, res, history, assigned, snapView, snapAssigned>>

Init == TreeInit /\ EngineInit

\* wal.log holds at most maxWal lines and no counter is beyond maxNextId + 1
Bounded(maxWal, maxNextId) ==
    /\ Len(walFile) <= maxWal
    /\ \A n \in DOMAIN tables : tables[n].next_id <= maxNextId + 1

(***************************************************************************)
(* The engine under every statement that changes it, snapshots and         *)
(* restarts.                                                               *)
(***************************************************************************)
Next ==
    \/ \E t \in TableNames, columns \in Schemas :
            CreateTableStmt(t, columns) /\ Bounded(MaxWal, MaxNextId)'
    \/ \E t \in TableNames, given \in Inserts :
            InsertStmt(t, given) /\ Bounded(MaxWal, MaxNextId)'
    \/ \E t \in TableNames, updates \in Updates, where \in Wheres :
            UpdateStmt(t, updates, where) /\ Bounded(MaxWal, MaxNextId)'
    \/ \E t \in TableNames, where \in Wheres :
            DeleteStmt(t, where) /\ Bounded(MaxWal, MaxNextId)'
    \/ Snapshot
    \/ Restart

Spec == Init /\ [][Next]_vars

(***************************************************************************)
(* The engine under the statements that change tables, in one process.     *)
(***************************************************************************)
NextDml ==
    \/ \E t \in TableNames, columns \in Schemas :
            CreateTableStmt(t, columns) /\ Bounded(MaxDmlWal, MaxDmlNextId)'
    \/ \E t \in TableNames, given \in Inserts :
            InsertStmt(t, given) /\ Bounded(MaxDmlWal, MaxDmlNextId)'
    \/ \E t \in TableNames, updates \in Updates, where \in Wheres :
            UpdateStmt(t, updates, where) /\ Bounded(MaxDmlWal, MaxDmlNextId)'
    \/ \E t \in TableNames, where \in Wheres :
            DeleteStmt(t, where) /\ Bounded(MaxDmlWal, MaxDmlNextId)'

SpecDml == Init /\ [][NextDml]_vars

(***************************************************************************)
(* The engine under every statement, in one process: tables are created    *)
(* once, indexes are created under the canonical identifier.               *)
(***************************************************************************)
QueryWheres == [column : Columns, value : 1..MaxQueryNextId]

NextQuery ==
    \/ \E t \in TableNames, columns \in Schemas :
            /\ t \notin DOMAIN tables
            /\ CreateTableStmt(t, columns) /\ Bounded(MaxQueryWal, MaxQueryNextId)'
    \/ \E t \in TableNames, given \in Inserts :
            InsertStmt(t, given) /\ Bounded(MaxQueryWal, MaxQueryNextId)'
    \/ \E t \in TableNames, c \in Columns :
            CreateIndexStmt(IndexKey(t, c), t, c)
    \/ \E t \in TableNames, updates \in Updates, where \in Wheres :
            UpdateStmt(t, updates, where) /\ Bounded(MaxQueryWal, MaxQueryNextId)'
    \/ \E t \in TableNames, where \in Wheres :
            DeleteStmt(t, where) /\ Bounded(MaxQueryWal, MaxQueryNextId)'
    \/ \E t \in TableNames, where \in QueryWheres : SelectStmt(t, where)

SpecQuery == Init /\ [][NextQuery]_vars

(***************************************************************************)
(* The engine under table creation, index creation under the canonical or  *)
(* another identifier, inserts, snapshots and restarts.                    *)
(***************************************************************************)
\* the identifiers offered to CREATE INDEX on column c of table t
IndexNames(t, c) == {IndexKey(t, c), "idx_" \o c}

\* the columns offered to CREATE INDEX
IndexColumns == {"email"}

NextIndex ==
    \/ \E t \in TableNames, columns \in Schemas :
            CreateTableStmt(t, columns) /\ Bounded(MaxIndexWal, MaxIndexNextId)'
    \/ \E t \in TableNames, given \in Inserts :
            InsertStmt(t, given) /\ Bounded(MaxIndexWal, MaxIndexNextId)'
    \/ \E t \in TableNames, c \in IndexColumns :
            \E name \in IndexNames(t, c) : CreateIndexStmt(name, t, c)
    \/ Snapshot
    \/ Restart

SpecIndex == Init /\ [][NextIndex]_vars

(***************************************************************************)
(* The engine under the creation of two tables, inserts and joins.         *)
(***************************************************************************)
JoinTables == {"t", "u"}

\* the column definitions offered to CREATE TABLE: no key, nothing unique
JoinSchemas ==
    { <<ColDef("id", "INTEGER", FALSE, FALSE), ColDef("email", "TEXT", FALSE, FALSE)>> }

\* the column lists offered to a join
JoinColumns == {Star, <<"t.email", "u.email">>}

NextJoin ==
    \/ \E t \in JoinTables, columns \in JoinSchemas :
            /\ t \notin DOMAIN tables
            /\ CreateTableStmt(t, columns) /\ Bounded(MaxJoinWal, MaxJoinNextId)'
    \/ \E t \in JoinTables, given \in Inserts :
            InsertStmt(t, given) /\ Bounded(MaxJoinWal, MaxJoinNextId)'
    \/ \E columns \in JoinColumns, t1, t2 \in JoinTables, c1, c2 \in Columns :
            JoinStmt(columns, t1, t2, c1, c2)

SpecJoin == Init /\ [][NextJoin]_vars

(***************************************************************************)
(* The engine under one creation of a table, inserts and updates, with     *)
(* room in the log for an update of two rows.                              *)
(***************************************************************************)
NextUpdate ==
    \/ \E t \in TableNames, columns \in Schemas :
            /\ t \notin DOMAIN tables
            /\ CreateTableStmt(t, columns) /\ Bounded(MaxUpdateWal, MaxUpdateNextId)'
    \/ \E t \in TableNames, given \in Inserts :
            InsertStmt(t, given) /\ Bounded(MaxUpdateWal, MaxUpdateNextId)'
    \/ \E t \in TableNames, updates \in Updates, where \in Wheres :
            UpdateStmt(t, updates, where) /\ Bounded(MaxUpdateWal, MaxUpdateNextId)'

SpecUpdate == Init /\ [][NextUpdate]_vars

(***************************************************************************)
(* The engine behind the threaded server: one table created, then inserts  *)
(* by the request threads, step by step, and selects at any moment.        *)
(***************************************************************************)
NextConc ==
    \/ \E t \in TableNames, columns \in Schemas :
            /\ t \notin DOMAIN tables
            /\ CreateTableStmt(t, columns)
    \/ \E th \in Threads, t \in TableNames, given \in Inserts :
            /\ InsertRows(th, t, given)
            /\ Len(heap') <= MaxConcRows /\ Bounded(MaxConcWal, MaxConcNextId)'
    \/ \E th \in Threads : InsertIndexes(th)
    \/ \E th \in Threads : InsertLog(th)
    \/ \E t \in TableNames, where \in Wheres : SelectStmt(t, where)

SpecConc == Init /\ [][NextConc]_vars

(***************************************************************************)
(* The engine of one process that can end at any moment, a snapshot in     *)
(* progress included.  A process whose constructor raised serves nothing.  *)
(***************************************************************************)
AllIdle == \A th \in Threads : inflight[th].pc = "idle"

Up == ~(res.op = "restart" /\ ~res.success)

NextCrash ==
    \/ \E t \in TableNames, columns \in Schemas :
            /\ Up /\ AllIdle /\ t \notin DOMAIN tables
            /\ CreateTableStmt(t, columns) /\ Bounded(MaxCrashWal, MaxCrashNextId)'
    \/ \E t \in TableNames, given \in Inserts :
            /\ Up /\ AllIdle
            /\ InsertStmt(t, given) /\ Bounded(MaxCrashWal, MaxCrashNextId)'
    \/ \E th \in Threads : Up /\ AllIdle /\ SnapshotOpen(th)
    \/ \E th \in Threads : SnapshotDump(th)
    \/ Restart

SpecCrash == Init /\ [][NextCrash]_vars

(***************************************************************************)
(* The write-ahead log on its own: appends, clear and restarts.            *)
(***************************************************************************)
LogOperations == {"INSERT", "UPDATE", "DELETE"}

NextLog ==
    \/ \E operation \in LogOperations, value \in Vals :
            Len(history) < MaxLogAppends /\ LogAppend(operation, value)
    \/ LogClear
    \/ Restart

SpecLog == Init /\ [][NextLog]_vars

(***************************************************************************)
(* The engine under the creation of two tables, explicit indexes on them   *)
(* and inserts.                                                            *)
(***************************************************************************)
NextInsert ==
    \/ \E t \in JoinTables, columns \in Schemas :
            /\ t \notin DOMAIN tables
            /\ CreateTableStmt(t, columns) /\ Bounded(MaxInsertWal, MaxInsertNextId)'
    \/ \E t \in JoinTables, given \in Inserts :
            InsertStmt(t, given) /\ Bounded(MaxInsertWal, MaxInsertNextId)'
    \/ \E t \in JoinTables, c \in IndexColumns :
            t \in DOMAIN tables /\ CreateIndexStmt(IndexKey(t, c), t, c)

SpecInsert == Init /\ [][NextInsert]_vars

(***************************************************************************)
(* The engine behind the threaded server under inserts that omit the       *)
(* primary key, on one table, by two request threads.                      *)
(***************************************************************************)
\* the column -> value dicts offered to these inserts
RaceInserts == [{"email"} -> Vals]

NextRace ==
    \/ \E t \in TableNames, columns \in Schemas :
            /\ t \notin DOMAIN tables
            /\ CreateTableStmt(t, columns)
    \/ \E th \in Threads, t \in DOMAIN tables, given \in RaceInserts :
            /\ tables[t].next_id <= MaxRaceNextId
            /\ Len(heap) + Cardinality({o \in Threads : inflight[o].pc \in {"advance", "rows"}})
                  < MaxRaceRows
            /\ RaceAssign(th, t, given)
    \/ \E th \in Threads : RaceAdvance(th)
    \/ \E th \in Threads : RaceRows(th)
    \/ \E th \in Threads : InsertIndexes(th)
    \/ \E th \in Threads : RaceEntry(th)
    \/ \E th \in Threads : RacePersist(th)

SpecRace == Init /\ [][NextRace]_vars

NextTree == \E k \in 1..MaxKey : TreeInsert(k)

(***************************************************************************)
(* A stand-alone tree driven the way the engine drives an index: the row   *)
(* is appended to the bucket that search finds under its key, or to a new  *)
(* list, and the bucket is inserted under the key.  Rows are numbered in   *)
(* arrival order; inserted[k] records the rows that arrived under key k.   *)
(***************************************************************************)
\* the rows that arrived under key k so far
Arrived(k) == IF k \in DOMAIN inserted THEN inserted[k] ELSE <<>>

\* the number of rows that arrived so far
FoldCount ==
    Cardinality(UNION {{<<k, i>> : i \in 1..Len(inserted[k])} : k \in DOMAIN inserted})

TreeFold(k) ==
    LET row == FoldCount + 1
        ix  == IndexFold([tree |-> tree, buckets |-> buckets], k, row)
    IN  /\ FoldCount < MaxFolds
        /\ tree' = ix.tree
        /\ buckets' = ix.buckets
        /\ inserted' = Put(inserted, k, Append(Arrived(k), row))
        /\ UNCHANGED engineVars

NextFold == \E k \in 1..MaxFoldKey : TreeFold(k)

SpecFold == Init /\ [][NextFold]_vars

SpecTree == Init /\ [][NextTree]_vars

(***************************************************************************)
(* C1: after insert calls with distinct keys, in any order, search(k)      *)
(* returns the bucket inserted under k for every inserted key k, and None  *)
(* for every key that was never inserted.                                  *)
(***************************************************************************)
C1_SearchFindsInserted ==
    \A k \in 1..MaxKey :
        Search(tree, k) = IF k \in DOMAIN inserted THEN inserted[k] ELSE None

(***************************************************************************)
(* C2: a SELECT with an equality predicate on a column that has an index   *)
(* registered under <table>_<column>_idx returns exactly the rows that a   *)
(* full scan of the table's current rows, comparing that column for        *)
(* equality, returns.                                                      *)
(***************************************************************************)
\* the rows of table t whose column c equals v, by a scan of the table
ScanRows(t, c, v) ==
    LET Match(rid) == c \in DOMAIN heap[rid] /\ heap[rid][c] = v
        rids       == SelectSeq(tables[t].rows, Match)
    IN  [i \in 1..Len(rids) |-> heap[rids[i]]]

C2_IndexedSelectEqualsScan ==
    \A t \in DOMAIN tables, where \in QueryWheres :
        IndexKey(t, where.column) \in DOMAIN indexes
            => DoSelect(Engine, Star, t, where).res.rows
                   = ScanRows(t, where.column, where.value)

(***************************************************************************)
(* C3: an insert whose new row carries, for some unique column of the      *)
(* table, a value that an existing row already holds fails with an error,  *)
(* and the table's row sequence and the log's entry sequence are the same  *)
(* after the failed insert as before it.                                   *)
(***************************************************************************)
\* the row that an insert of given into table t materialises
NewRow(t, given) ==
    IF tables[t].primary_key # NoneStr /\ tables[t].primary_key \notin DOMAIN given
    THEN [c \in DOMAIN given \cup {tables[t].primary_key} |->
            IF c \in DOMAIN given THEN given[c] ELSE tables[t].next_id]
    ELSE given

\* some row of table t holds the value of row in a unique column of t
HoldsDuplicate(t, row) ==
    \E c \in tables[t].unique_columns \cap DOMAIN row :
        \E i \in 1..Len(tables[t].rows) :
            /\ c \in DOMAIN heap[tables[t].rows[i]]
            /\ heap[tables[t].rows[i]][c] = row[c]

C3_DuplicateInsertFails ==
    [][\A t \in TableNames, given \in Inserts :
          (/\ t \in DOMAIN tables
           /\ HoldsDuplicate(t, NewRow(t, given))
           /\ InsertStmt(t, given))
          => /\ res'.op = "insert"
             /\ res'.success = FALSE
             /\ tables'[t].rows = tables[t].rows
             /\ TableView(tables', heap')[t].rows = TableView(tables, heap)[t].rows
             /\ wal'.entries = wal.entries
             /\ walFile' = walFile]_vars

C3_Witness ==
    /\ res.op = "insert"
    /\ res.success = FALSE
    /\ res.message = "Duplicate value for unique column email"

(***************************************************************************)
(* C4: in every reachable state no two rows of a table hold the same       *)
(* non-null value in a column declared UNIQUE.                             *)
(***************************************************************************)
C4_UniqueColumnsDistinct ==
    \A t \in DOMAIN tables :
        \A c \in tables[t].unique_columns :
            \A i, j \in 1..Len(tables[t].rows) :
                (/\ i # j
                 /\ c \in DOMAIN heap[tables[t].rows[i]]
                 /\ c \in DOMAIN heap[tables[t].rows[j]])
                => heap[tables[t].rows[i]][c] # heap[tables[t].rows[j]][c]

(***************************************************************************)
(* C5: in every reachable state of a table that has a primary-key column,  *)
(* every row has a value for that column and no two rows share a           *)
(* primary-key value.                                                      *)
(***************************************************************************)
C5_PrimaryKeyPresentDistinct ==
    \A t \in DOMAIN tables :
        tables[t].primary_key # NoneStr =>
            LET pk == tables[t].primary_key
                rs == tables[t].rows
            IN  /\ \A i \in 1..Len(rs) : pk \in DOMAIN heap[rs[i]]
                /\ \A i, j \in 1..Len(rs) :
                      i # j => heap[rs[i]][pk] # heap[rs[j]][pk]

(***************************************************************************)
(* C6: the primary-key values assigned to the inserts into one table that  *)
(* omit the key are strictly increasing; after a snapshot and a restart    *)
(* that loads it, the next value to be assigned is the next_id of the      *)
(* snapshot, which is greater than every value assigned before the         *)
(* snapshot.                                                               *)
(***************************************************************************)
StrictlyIncreasing(s) == \A i, j \in 1..Len(s) : i < j => s[i] < s[j]

C6_AutoIncrementIncreasing ==
    /\ \A t \in DOMAIN assigned : StrictlyIncreasing(assigned[t])
    /\ res.op = "restart" =>
          \A t \in DOMAIN tables :
              /\ tables[t].next_id = snapView[t].next_id
              /\ \A i \in 1..Len(snapAssigned[t]) :
                    snapAssigned[t][i] < tables[t].next_id

\* two keys assigned to table t, the first before a snapshot and the second
\* by a process that loaded that snapshot
C6_Witness ==
    /\ "t" \in DOMAIN assigned
    /\ "t" \in DOMAIN snapAssigned
    /\ Len(assigned["t"]) = 2
    /\ Len(snapAssigned["t"]) = 1
    /\ Len(wal.entries) = 3
    /\ wal.entries[2].data.kind = "json"
    /\ wal.entries[3].data.kind = "row"

(***************************************************************************)
(* C7: each append to the log returns an LSN strictly greater than every   *)
(* LSN returned or loaded before it, and after a reload the counter is     *)
(* the maximum persisted LSN plus one.                                     *)
(***************************************************************************)
\* the largest lsn of the lines of a log file, -1 for none
MaxLsn(file) ==
    IF file = <<>> THEN -1
    ELSE CHOOSE m \in {file[i].lsn : i \in 1..Len(file)} :
            \A i \in 1..Len(file) : file[i].lsn <= m

C7_LsnIncreasing ==
    /\ \A i, j \in 1..Len(history) : i < j => history[i].lsn < history[j].lsn
    /\ \A i \in 1..Len(wal.entries) : wal.entries[i].lsn < wal.lsn_counter
    /\ res.op = "restart" => wal.lsn_counter = MaxLsn(walFile) + 1

\* an entry appended by a process that had loaded an entry from disk
C7_Witness ==
    \E i \in 1..Len(wal.entries) :
        /\ i > 1
        /\ wal.entries[i - 1].data.kind = "json"
        /\ wal.entries[i].data.kind # "json"

(***************************************************************************)
(* C8: create_snapshot followed by a fresh engine that loads the snapshot  *)
(* yields, for every table, the same column definitions, row sequence,     *)
(* primary key, unique-column set and next_id as the engine that took the  *)
(* snapshot.                                                               *)
(***************************************************************************)
C8_SnapshotRoundTrip ==
    (res.op = "restart" /\ snapFile.exists) =>
        /\ DOMAIN tables = DOMAIN snapView
        /\ \A t \in DOMAIN tables :
              LET now == TableView(tables, heap)[t]
              IN  /\ now.columns = snapView[t].columns
                  /\ now.rows = snapView[t].rows
                  /\ now.primary_key = snapView[t].primary_key
                  /\ now.unique_columns = snapView[t].unique_columns
                  /\ now.next_id = snapView[t].next_id

\* a loaded table with a primary key, a unique column and two rows
C8_Witness ==
    /\ res.op = "restart"
    /\ snapFile.exists
    /\ "t" \in DOMAIN tables
    /\ tables["t"].primary_key = "id"
    /\ tables["t"].unique_columns = {"email"}
    /\ Len(tables["t"].rows) = 2

(***************************************************************************)
(* C9: after a restart the tables and their rows are those captured by     *)
(* the most recent snapshot (no tables if none was taken): mutations made  *)
(* after it are absent, while every log entry ever appended is in the      *)
(* reloaded log, in append order.                                          *)
(***************************************************************************)
C9_RestartLoadsSnapshotNotLog ==
    res.op = "restart" =>
        /\ snapFile.exists = FALSE => tables = EmptyDict
        /\ DOMAIN tables = DOMAIN snapView
        /\ \A t \in DOMAIN tables :
              [i \in 1..Len(tables[t].rows) |-> heap[tables[t].rows[i]]]
                  = snapView[t].rows
        /\ [i \in 1..Len(wal.entries) |-> ToDict(heap, wal.entries[i])] = history

\* the last statement logged before the restart was an insert, and the
\* table came back without a row
C9_Witness ==
    /\ res.op = "restart"
    /\ "t" \in DOMAIN tables
    /\ tables["t"].rows = <<>>
    /\ Len(wal.entries) > 0
    /\ wal.entries[Len(wal.entries)].operation = "INSERT"

(***************************************************************************)
(* C10: create_table with a name that is already registered fails with an  *)
(* error and leaves the existing table's rows, its next_id, its indexes    *)
(* and the log unchanged.                                                  *)
(***************************************************************************)
C10_CreateExistingTableFails ==
    [][\A t \in TableNames, columns \in Schemas :
          (t \in DOMAIN tables /\ CreateTableStmt(t, columns))
          => /\ res'.success = FALSE
             /\ TableView(tables', heap')[t].rows = TableView(tables, heap)[t].rows
             /\ tables'[t].next_id = tables[t].next_id
             /\ indexes' = indexes
             /\ wal'.entries = wal.entries
             /\ walFile' = walFile]_vars

(***************************************************************************)
(* C11: create_index naming a table that is not registered fails with an   *)
(* error and registers no index: the index mapping is unchanged.           *)
(***************************************************************************)
C11_CreateIndexUnknownTableFails ==
    [][\A t \in TableNames, c \in IndexColumns :
          \A name \in IndexNames(t, c) :
              (t \notin DOMAIN tables /\ CreateIndexStmt(name, t, c))
              => /\ res'.success = FALSE
                 /\ indexes' = indexes]_vars

(***************************************************************************)
(* C12: for any sequence of insertions into a tree, re-insertions of a key *)
(* with its merged bucket included, and any bounds min <= max,             *)
(* range_query(min, max) returns the rows of the bucket of every inserted  *)
(* key within the bounds, each bucket once, in ascending key order, and    *)
(* the empty sequence when no inserted key lies within the bounds.         *)
(***************************************************************************)
\* the rows that arrived under the keys lo..hi, in ascending key order
RECURSIVE ArrivedBetween(_, _)
ArrivedBetween(lo, hi) ==
    IF lo > hi THEN <<>> ELSE Arrived(lo) \o ArrivedBetween(lo + 1, hi)

C12_RangeQueryReturnsBuckets ==
    \A min_key \in 0..(MaxFoldKey + 1) :
        \A max_key \in min_key..(MaxFoldKey + 1) :
            RangeQuery(tree, buckets, min_key, max_key)
                = ArrivedBetween(min_key, max_key)

(***************************************************************************)
(* C13: after any sequence of insert calls, following the leaf chain from  *)
(* the leftmost leaf through the next references visits every leaf exactly *)
(* once and reads keys in non-decreasing order.                            *)
(***************************************************************************)
\* the nodes of the subtree below node n, n included
RECURSIVE NodesUnder(_, _)
NodesUnder(nodes, n) ==
    IF nodes[n].is_leaf THEN {n}
    ELSE {n} \cup UNION {NodesUnder(nodes, nodes[n].children[i]) :
                            i \in 1..Len(nodes[n].children)}

\* the leaves of tree t
Leaves(t) == {n \in NodesUnder(t.nodes, t.root) : t.nodes[n].is_leaf}

\* the leaf reached from node n through first children
RECURSIVE LeftmostLeaf(_, _)
LeftmostLeaf(nodes, n) ==
    IF nodes[n].is_leaf THEN n ELSE LeftmostLeaf(nodes, nodes[n].children[1])

\* the leaves visited from leaf n through the next references, at most fuel
\* of them
RECURSIVE LeafChain(_, _, _)
LeafChain(nodes, n, fuel) ==
    IF n = None \/ fuel = 0 THEN <<>>
    ELSE <<n>> \o LeafChain(nodes, nodes[n].next, fuel - 1)

\* the keys of the leaves of a chain, in chain order
RECURSIVE ChainKeys(_, _)
ChainKeys(nodes, chain) ==
    IF chain = <<>> THEN <<>>
    ELSE nodes[Head(chain)].keys \o ChainKeys(nodes, Tail(chain))

C13_LeafChainVisitsAllInOrder ==
    LET chain == LeafChain(tree.nodes, LeftmostLeaf(tree.nodes, tree.root),
                           Len(tree.nodes) + 1)
        keys  == ChainKeys(tree.nodes, chain)
    IN  /\ ListToSet(chain) = Leaves(tree)
        /\ Len(chain) = Cardinality(Leaves(tree))
        /\ \A i \in 1..(Len(keys) - 1) : keys[i] <= keys[i + 1]

\* a tree of three levels in which a key straddles two leaves
C13_Witness ==
    /\ ~tree.nodes[tree.root].is_leaf
    /\ ~tree.nodes[tree.nodes[tree.root].children[1]].is_leaf
    /\ \E n \in Leaves(tree) :
          /\ tree.nodes[n].next # None
          /\ tree.nodes[n].keys[Len(tree.nodes[n].keys)]
                = tree.nodes[tree.nodes[n].next].keys[1]

(***************************************************************************)
(* C14: a join of two tables on left column L and right column R returns   *)
(* exactly one combined row for each pair (left row, right row) whose L    *)
(* value equals the R value, with columns qualified by the originating     *)
(* table name; when no pair matches, the row sequence is empty and, for    *)
(* wildcard projection, the returned column list is empty.                 *)
(***************************************************************************)
\* the pairs (position in t1, position in t2) of rows that both have a value
\* in their join column, the two values equal
MatchingPairs(t1, t2, c1, c2) ==
    {p \in (1..Len(tables[t1].rows)) \X (1..Len(tables[t2].rows)) :
        LET row1 == heap[tables[t1].rows[p[1]]]
            row2 == heap[tables[t2].rows[p[2]]]
        IN  /\ c1 \in DOMAIN row1
            /\ c2 \in DOMAIN row2
            /\ row1[c1] = row2[c2]}

\* the combined row of the pair p
CombinedRow(t1, t2, p) ==
    LET row1 == heap[tables[t1].rows[p[1]]]
        row2 == heap[tables[t2].rows[p[2]]]
    IN  [q \in {t1 \o "." \o k : k \in DOMAIN row1}
                  \cup {t2 \o "." \o k : k \in DOMAIN row2} |->
            IF \E k \in DOMAIN row1 : t1 \o "." \o k = q
            THEN row1[CHOOSE k \in DOMAIN row1 : t1 \o "." \o k = q]
            ELSE row2[CHOOSE k \in DOMAIN row2 : t2 \o "." \o k = q]]

C14_JoinReturnsMatchingPairs ==
    [][\A t1, t2 \in JoinTables, c1, c2 \in Columns :
          (/\ t1 # t2
           /\ t1 \in DOMAIN tables
           /\ t2 \in DOMAIN tables
           /\ JoinStmt(Star, t1, t2, c1, c2))
          => LET pairs == MatchingPairs(t1, t2, c1, c2)
             IN  /\ res'.success
                 /\ Len(res'.rows) = Cardinality(pairs)
                 /\ \A row \in ListToSet(res'.rows) \cup
                               {CombinedRow(t1, t2, p) : p \in pairs} :
                       Cardinality({i \in 1..Len(res'.rows) : res'.rows[i] = row})
                           = Cardinality({p \in pairs : CombinedRow(t1, t2, p) = row})
                 /\ pairs = {} => (res'.rows = <<>> /\ res'.columns = <<>>)]_vars

(***************************************************************************)
(* C15: an update that matches n rows appends exactly n UPDATE log         *)
(* entries, one per matched row, with consecutive LSNs starting at the     *)
(* previous maximum LSN plus one; each entry's persisted payload holds the *)
(* row image before the assignments as old and the image after them as     *)
(* new.  An update matching zero rows succeeds and appends nothing.  The    *)
(* matched rows are the ones the filter algorithm resolves for the WHERE   *)
(* clause, in its order.                                                   *)
(***************************************************************************)
C15_UpdateLogsEachMatchedRow ==
    [][\A t \in TableNames, updates \in Updates, where \in Wheres :
          (t \in DOMAIN tables /\ UpdateStmt(t, updates, where))
          => LET rids == FilterRows(Engine, tables[t], tables[t].rows,
                                    where.column, where.value)
                 n    == Len(rids)
             IN  /\ res'.success
                 /\ Len(walFile') = Len(walFile) + n
                 /\ SubSeq(walFile', 1, Len(walFile)) = walFile
                 /\ Len(wal'.entries) = Len(wal.entries) + n
                 /\ \A i \in 1..n :
                       LET line == walFile'[Len(walFile) + i]
                       IN  /\ line.operation = "UPDATE"
                           /\ line.table = t
                           /\ line.lsn = MaxLsn(walFile) + i
                           /\ line.data.old = heap[rids[i]]
                           /\ line.data.new = heap'[rids[i]]
                           /\ \A c \in DOMAIN line.data.new :
                                 line.data.new[c] =
                                     IF c \in DOMAIN updates THEN updates[c]
                                     ELSE line.data.old[c]]_vars

\* an update has just changed two rows and logged each of them
C15_Witness ==
    /\ res.op = "update" /\ res.success /\ res.count = 2
    /\ Len(walFile) >= 3
    /\ walFile[Len(walFile)].operation = "UPDATE"
    /\ walFile[Len(walFile) - 1].operation = "UPDATE"
    /\ walFile[Len(walFile)].lsn = walFile[Len(walFile) - 1].lsn + 1
    /\ walFile[Len(walFile)].data.old # walFile[Len(walFile)].data.new

(***************************************************************************)
(* C16: a delete statement appends exactly one DELETE log entry per row it *)
(* removes from the table: the number of DELETE entries it appends, the    *)
(* number of rows it reports as deleted and the decrease in the table's    *)
(* row count are all equal.                                                *)
(***************************************************************************)
C16_DeleteLogsEachRemovedRow ==
    [][\A t \in TableNames, where \in Wheres :
          (t \in DOMAIN tables /\ DeleteStmt(t, where))
          => LET appended == Len(walFile') - Len(walFile)
                 removed  == Len(tables[t].rows) - Len(tables'[t].rows)
             IN  /\ SubSeq(walFile', 1, Len(walFile)) = walFile
                 /\ \A i \in Len(walFile) + 1 .. Len(walFile') :
                       walFile'[i].operation = "DELETE" /\ walFile'[i].table = t
                 /\ appended = res'.count
                 /\ appended = removed]_vars

(***************************************************************************)
(* C17: served to concurrent requests, no interleaving of two requests     *)
(* lets a reader observe a table row that is missing from an index         *)
(* registered on that table, or a log entry whose row is not yet in the    *)
(* table.  A select can run in every state, so this is an invariant: each  *)
(* row of a table with a value for an indexed column is in a bucket of     *)
(* that index under its value, and the row of each INSERT entry of the log *)
(* is among the table's rows.                                              *)
(***************************************************************************)
\* the (leaf, position) pairs of the leaf layer of index ix
LeafEntries(ix) ==
    UNION {{<<n, j>> : j \in 1..Len(ix.tree.nodes[n].keys)} : n \in Leaves(ix.tree)}

\* the entries of index ix with key value whose bucket holds rid
EntriesHolding(ix, value, rid) ==
    {p \in LeafEntries(ix) :
        /\ ix.tree.nodes[p[1]].keys[p[2]] = value
        /\ rid \in ListToSet(ix.buckets[ix.tree.nodes[p[1]].values[p[2]]])}

C17_ReaderSeesRowsIndexedAndLogged ==
    /\ \A k \in DOMAIN indexes :
          indexes[k].table \in DOMAIN tables
          => \A rid \in ListToSet(tables[indexes[k].table].rows) :
                indexes[k].column \in DOMAIN heap[rid]
                => EntriesHolding(indexes[k], heap[rid][indexes[k].column], rid) # {}
    /\ \A i \in 1..Len(wal.entries) :
          wal.entries[i].operation = "INSERT"
          => wal.entries[i].data.ref \in ListToSet(tables[wal.entries[i].table].rows)

(***************************************************************************)
(* C18: in every state reachable by create_table, create_index and insert, *)
(* for every registered index on (table, column), each row of the table    *)
(* that has a value for that column appears in exactly one key-bucket      *)
(* entry of that index's leaf layer.                                       *)
(***************************************************************************)
C18_RowInExactlyOneEntry ==
    \A k \in DOMAIN indexes :
        indexes[k].table \in DOMAIN tables
        => \A rid \in ListToSet(tables[indexes[k].table].rows) :
              indexes[k].column \in DOMAIN heap[rid]
              => Cardinality({p \in LeafEntries(indexes[k]) :
                    rid \in ListToSet(indexes[k].buckets[
                        indexes[k].tree.nodes[p[1]].values[p[2]]])}) = 1

(***************************************************************************)
(* C19: index registrations are never lost: every index that was           *)
(* registered (for a primary or unique column at table creation, or by an  *)
(* explicit create_index statement) on a table captured in a snapshot is   *)
(* registered again, rebuilt from the loaded rows, after a restart that    *)
(* loads that snapshot.                                                    *)
(***************************************************************************)
C19_IndexesSurviveRestart ==
    [][(Restart /\ snapFile.exists)
       => \A k \in DOMAIN indexes :
             indexes[k].table \in DOMAIN snapFile.tables
             => /\ k \in DOMAIN indexes'
                /\ indexes'[k].table = indexes[k].table
                /\ indexes'[k].column = indexes[k].column
                /\ \A rid \in ListToSet(tables'[indexes[k].table].rows) :
                      indexes[k].column \in DOMAIN heap'[rid]
                      => EntriesHolding(indexes'[k], heap'[rid][indexes[k].column],
                                        rid) # {}]_vars

(***************************************************************************)
(* C20: after any sequence of insert calls on a tree of order 4, every     *)
(* node holds at most order - 1 = 3 keys, and every internal node has      *)
(* exactly one more child than it has keys.                                *)
(***************************************************************************)
C20_NodeCapacity ==
    /\ tree.order = 4
    /\ \A n \in NodesUnder(tree.nodes, tree.root) :
          /\ Len(tree.nodes[n].keys) <= tree.order - 1
          /\ ~tree.nodes[n].is_leaf
             => Len(tree.nodes[n].children) = Len(tree.nodes[n].keys) + 1

\* a tree of three levels with a full leaf and an internal node below the root
C20_Witness ==
    /\ \E n \in NodesUnder(tree.nodes, tree.root) :
          tree.nodes[n].is_leaf /\ Len(tree.nodes[n].keys) = tree.order - 1
    /\ \E n \in NodesUnder(tree.nodes, tree.root) \ {tree.root} :
          ~tree.nodes[n].is_leaf /\ Len(tree.nodes[n].keys) >= 2

(***************************************************************************)
(* C21: after any sequence of insert calls, including the insert of a key  *)
(* that is already present (the caller re-inserting a merged bucket), the  *)
(* keys of every node are sorted ascending and no key occurs twice within  *)
(* a node: a re-inserted key replaces its bucket rather than adding a      *)
(* second entry.                                                           *)
(***************************************************************************)
C21_NodeKeysSortedUnique ==
    \A n \in NodesUnder(tree.nodes, tree.root) :
        \A i, j \in 1..Len(tree.nodes[n].keys) :
            i < j => tree.nodes[n].keys[i] < tree.nodes[n].keys[j]

(***************************************************************************)
(* C22: snapshot creation is atomic with respect to a crash: if the        *)
(* process ends at any point during create_snapshot, a restart loads       *)
(* either the complete previous snapshot or the complete new one, never an *)
(* empty or partial one.  snapView is the content of the last snapshot     *)
(* that was written completely: the new one once the file is closed, the   *)
(* previous one until then.                                                *)
(***************************************************************************)
C22_RestartLoadsCompleteSnapshot ==
    [][Restart => /\ res'.success
                  /\ TableView(tables', heap') = snapView]_vars

(***************************************************************************)
(* C23: a log entry is immutable once appended: for any later sequence of  *)
(* insert, update and delete statements, the payload of every in-memory    *)
(* log entry stays equal to the payload that was persisted for it at       *)
(* append time (an INSERT entry keeps the row as inserted, an UPDATE entry *)
(* keeps its old and new images).                                          *)
(***************************************************************************)
C23_LogEntriesImmutable ==
    /\ Len(wal.entries) = Len(walFile)
    /\ \A i \in 1..Len(wal.entries) :
          ToDict(heap, wal.entries[i]).data = walFile[i].data

(***************************************************************************)
(* C24: no LSN is ever assigned twice over the life of the database: for   *)
(* any sequence of append, clear and restart, an LSN returned by append    *)
(* differs from every LSN returned by any earlier append, including        *)
(* appends made before a clear() or before a restart.  history holds every *)
(* line ever appended, in append order.                                    *)
(***************************************************************************)
C24_LsnNeverReused ==
    \A i, j \in 1..Len(history) : i # j => history[i].lsn # history[j].lsn

(***************************************************************************)
(* C25: after any sequence of operations, a delete with predicate          *)
(* column = value removes exactly the rows whose current value of that     *)
(* column equals the value: afterwards no row of the table has that value  *)
(* in the column, and every row that did not have it is still in the table *)
(* in its original relative order.                                         *)
(***************************************************************************)
C25_DeleteRemovesExactlyMatching ==
    [][\A t \in TableNames, where \in Wheres :
          (t \in DOMAIN tables /\ DeleteStmt(t, where))
          => LET Other(rid) == Get(heap[rid], where.column) # where.value
             IN  /\ tables'[t].rows = SelectSeq(tables[t].rows, Other)
                 /\ \A rid \in ListToSet(tables'[t].rows) :
                       Get(heap'[rid], where.column) # where.value]_vars

(***************************************************************************)
(* C26: a successful insert appends exactly one row to the end of the      *)
(* table's row sequence, folds that row into every index registered on the *)
(* table for a column the row has, then appends exactly one INSERT log     *)
(* entry whose payload is the full row including any auto-assigned primary *)
(* key, and returns that primary-key value; rows and indexes of other      *)
(* tables are unchanged.  Folded: the row is in a bucket under its value   *)
(* in the leaf layer, and every row that was in a bucket under a key still *)
(* is.                                                                     *)
(***************************************************************************)
\* the row that _insert materialises for table t from the given assignments
Materialised(t, given) ==
    IF tables[t].primary_key # NoneStr /\ tables[t].primary_key \notin DOMAIN given
    THEN [c \in DOMAIN given \cup {tables[t].primary_key} |->
             IF c \in DOMAIN given THEN given[c] ELSE tables[t].next_id]
    ELSE given

C26_InsertEffect ==
    [][\A t \in JoinTables, given \in Inserts :
          (t \in DOMAIN tables /\ InsertStmt(t, given) /\ res'.success)
          => LET row == Materialised(t, given)
                 rid == Len(heap) + 1
             IN  /\ heap' = Append(heap, row)
                 /\ tables'[t].rows = Append(tables[t].rows, rid)
                 /\ \A u \in DOMAIN tables \ {t} : tables'[u] = tables[u]
                 /\ DOMAIN tables' = DOMAIN tables
                 /\ DOMAIN indexes' = DOMAIN indexes
                 /\ \A k \in DOMAIN indexes :
                       IF indexes[k].table = t /\ indexes[k].column \in DOMAIN row
                       THEN /\ EntriesHolding(indexes'[k], row[indexes[k].column],
                                              rid) # {}
                            /\ \A old \in 1..Len(heap), key \in Vals \cup 1..MaxInsertNextId :
                                  EntriesHolding(indexes[k], key, old) # {}
                                  => EntriesHolding(indexes'[k], key, old) # {}
                       ELSE indexes'[k] = indexes[k]
                 /\ Len(walFile') = Len(walFile) + 1
                 /\ SubSeq(walFile', 1, Len(walFile)) = walFile
                 /\ walFile'[Len(walFile')] =
                       [operation |-> "INSERT", table |-> t, data |-> row,
                        lsn |-> MaxLsn(walFile) + 1]
                 /\ res'.count = Get(row, tables[t].primary_key)]_vars

\* an insert has just assigned a primary key, the row is in the table's
\* indexes and in the log, and another table with indexes of its own exists
C26_Witness ==
    /\ res.op = "insert" /\ res.success /\ res.count # None
    /\ DOMAIN tables = JoinTables
    /\ \E k \in DOMAIN indexes : indexes[k].table # res.table
    /\ LET rid == tables[res.table].rows[Len(tables[res.table].rows)]
       IN  /\ heap[rid][tables[res.table].primary_key] = res.count
           /\ walFile[Len(walFile)].data = heap[rid]
           /\ \E k \in DOMAIN indexes :
                 /\ indexes[k].table = res.table
                 /\ EntriesHolding(indexes[k], heap[rid][indexes[k].column], rid) # {}

(***************************************************************************)
(* C27: a failed insert changes nothing: when an insert that omits the     *)
(* primary key is rejected for a unique-column duplicate, the table's next *)
(* auto-increment value is the same after the failure as before it, so the *)
(* next successful insert gets the value the failed one would have got and *)
(* auto-assigned keys have no gaps.                                        *)
(***************************************************************************)
C27_FailedInsertKeepsNextId ==
    [][\A t \in JoinTables, given \in Inserts :
          (/\ t \in DOMAIN tables
           /\ tables[t].primary_key # NoneStr
           /\ tables[t].primary_key \notin DOMAIN given
           /\ InsertStmt(t, given)
           /\ ~res'.success)
          => tables'[t].next_id = tables[t].next_id]_vars

(***************************************************************************)
(* C28: after any sequence of insert calls the tree is balanced: every     *)
(* leaf is at the same depth from the root, and every leaf is reachable    *)
(* both by descent from the root and by the leaf chain.  The leaves are    *)
(* all the leaf nodes that insert has created.                             *)
(***************************************************************************)
\* the depths, counted from d at node n, of the leaves under n
RECURSIVE LeafDepths(_, _, _)
LeafDepths(nodes, n, d) ==
    IF nodes[n].is_leaf THEN {d}
    ELSE UNION {LeafDepths(nodes, nodes[n].children[i], d + 1) :
                   i \in 1..Len(nodes[n].children)}

\* every leaf node there is
AllLeaves(nodes) == {n \in 1..Len(nodes) : nodes[n].is_leaf}

C28_Balanced ==
    /\ Cardinality(LeafDepths(tree.nodes, tree.root, 0)) = 1
    /\ AllLeaves(tree.nodes) = Leaves(tree)
    /\ AllLeaves(tree.nodes) =
          ListToSet(LeafChain(tree.nodes, LeftmostLeaf(tree.nodes, tree.root),
                              Len(tree.nodes) + 1))

\* a tree whose leaves are two levels below the root, six of them or more
C28_Witness ==
    /\ LeafDepths(tree.nodes, tree.root, 0) = {2}
    /\ Cardinality(AllLeaves(tree.nodes)) >= 6

(***************************************************************************)
(* C29: under two concurrent insert requests on the same table that both   *)
(* omit the primary key, the two rows never receive the same               *)
(* auto-increment value and the two INSERT log entries never receive the   *)
(* same LSN.                                                               *)
(***************************************************************************)
C29_ConcurrentInsertsDistinct ==
    /\ \A t \in DOMAIN tables :
          tables[t].primary_key # NoneStr
          => \A i, j \in 1..Len(tables[t].rows) :
                i # j => heap[tables[t].rows[i]][tables[t].primary_key]
                            # heap[tables[t].rows[j]][tables[t].primary_key]
    /\ \A i, j \in 1..Len(walFile) :
          (i # j /\ walFile[i].operation = "INSERT" /\ walFile[j].operation = "INSERT")
          => walFile[i].lsn # walFile[j].lsn

====
